---- MODULE Spec2Model ----
(***************************************************************************)
(* FocusFlow: a Pomodoro timer with a Streamlit front-end                  *)
(* (bin/focusflow_app.py) and a GTK tray front-end (bin/focusflow_tray.py) *)
(* that share the settings file ~/.focusflow/config.json.                  *)
(*                                                                         *)
(* Time.  time.time() is the variable clock, counted in units of           *)
(* 1/TicksPerSecond seconds so that readings that are not whole seconds    *)
(* exist.  One handler (a script run of the web page, a GTK callback)      *)
(* observes one reading; the clock moves between handlers (Advance).       *)
(*                                                                         *)
(* Files.  The settings file is absent, or holds text that is no JSON, or  *)
(* the text of a JSON object: the sequence of its "key": value members in  *)
(* the order they are written.  A Python dict is a function from its keys  *)
(* to its values.  Values of the minute keys are integers.                 *)
(***************************************************************************)
EXTENDS Integers, Sequences, FiniteSets, TLC

\* ---------------------------------------------------------------- bounds
TicksPerSecond == 2      \* clock resolution: readings per second
MaxMinutes == 3          \* the clock is observed during this many minutes
MaxOffset == 2           \* ... at most this many units after a whole minute

SecondsPerMinute == 60

UnitsPerMinute == SecondsPerMinute * TicksPerSecond
MaxClock == MaxMinutes * UnitsPerMinute + MaxOffset

\* The readings of time.time() the model observes: around every whole minute of
\* the first MaxMinutes, and the instants of the 25/5 scenario (in seconds).
ScenarioSeconds == {1500, 1800, 3300}

ClockReadings ==
  {t \in 0..MaxClock : t % UnitsPerMinute <= MaxOffset}
    \cup {sec * TicksPerSecond : sec \in ScenarioSeconds}

\* Minutes the user types into the number inputs, minutes found in a file.
InputMinutes == {1, 2}
FileMinutes == {-1, 0, 1, 2}
Themes == {"dark", "light"}

\* The work minutes the users of the two sessions choose: one digit and two.
PeerMinutes == {5, 25}

\* ------------------------------------------------------------ python values
\* Rounding up instead of truncating.
PyInt_ceil(x) ==
  IF x >= 0 THEN (x + TicksPerSecond - 1) \div TicksPerSecond
  ELSE -((-x) \div TicksPerSecond)

\* int(x) of a float x given in clock units: truncation toward zero, in seconds.
PyInt(x) == IF x >= 0 THEN x \div TicksPerSecond ELSE -((-x) \div TicksPerSecond)

Max(a, b) == IF a >= b THEN a ELSE b

\* Minutes taken for seconds.
Seconds_NoSixty(minutes) == minutes * TicksPerSecond

\* minutes * 60, as a float offset in clock units.
Seconds(minutes) == minutes * SecondsPerMinute * TicksPerSecond

\* {**a, **b}
DictMerge(a, b) ==
  [k \in (DOMAIN a) \cup (DOMAIN b) |-> IF k \in DOMAIN b THEN b[k] ELSE a[k]]

DEFAULTS == [work_minutes |-> 25, break_minutes |-> 5, theme |-> "dark"]

\* The order in which json.dumps writes the keys of the dicts the program dumps
\* (insertion order: the keys of DEFAULTS, then a key DEFAULTS does not have).
KeyOrder == <<"work_minutes", "break_minutes", "theme", "extra">>

\* ------------------------------------------------------------------- files
NoFile == [exists |-> FALSE, json |-> FALSE, members |-> <<>>]
Garbage == [exists |-> TRUE, json |-> FALSE, members |-> <<>>]
JsonFile(members) == [exists |-> TRUE, json |-> TRUE, members |-> members]

\* json.dumps(d, indent=2): the members of d in dict order.
RECURSIVE DumpFrom(_, _)
DumpFrom(d, i) ==
  IF i > Len(KeyOrder) THEN <<>>
  ELSE LET k == KeyOrder[i]
       IN  (IF k \in DOMAIN d THEN << <<k, d[k]>> >> ELSE <<>>) \o DumpFrom(d, i + 1)

json_dumps(d) == DumpFrom(d, 1)

\* json.loads(text) of the text of an object: a later member overrides an
\* earlier one with the same key.
json_loads(members) ==
  LET keys == {members[i][1] : i \in 1..Len(members)}
      last(k) == CHOOSE i \in 1..Len(members) :
                   /\ members[i][1] = k
                   /\ \A j \in 1..Len(members) : members[j][1] = k => j <= i
  IN  [k \in keys |-> members[last(k)][2]]

\* The number of characters of an integer in JSON.
RECURSIVE Digits(_)
Digits(n) ==
  IF n < 0 THEN 1 + Digits(-n) ELSE IF n < 10 THEN 1 ELSE 1 + Digits(n \div 10)

\* The length of the text json.dumps(d, indent=2) writes for the members: "{",
\* a line of two blanks, the quoted key, ": " and the value per member, "," between
\* the lines, and "}".  Every character of these texts is one byte.
RECURSIVE MembersSize(_, _)
MembersSize(members, i) ==
  IF i > Len(members) THEN 0
  ELSE LET k == members[i][1]
           v == members[i][2]
       IN  1 + 2 + (Len(k) + 2) + 2 + (IF k = "theme" THEN Len(v) + 2 ELSE Digits(v))
             + (IF i < Len(members) THEN 1 ELSE 0)
             + MembersSize(members, i + 1)

TextSize(members) == IF Len(members) = 0 THEN 2 ELSE 1 + MembersSize(members, 1) + 2

\* The file after open(path, "w"): it exists and its text is empty, which is no JSON.
Truncated == Garbage

\* The file after a text is written at offset 0 of the file f, which the writer
\* truncated when it opened it: the bytes another writer has put beyond the end
\* of the text since then stay, and an object followed by more text is no JSON.
\* (With two writers a file that is no JSON at this point is the empty file.)
WriteOver(f, members) ==
  IF f.json /\ TextSize(f.members) > TextSize(members) THEN Garbage
  ELSE JsonFile(members)

\* ------------------------------------------------------------------- state
VARIABLES
  clock,          \* time.time(), in units of 1/TicksPerSecond s
  file,           \* CONFIG_PATH: NoFile, Garbage or JsonFile(members)
  session_state,  \* st.session_state of the web session, a dict (empty before the first run)
  self,           \* the FocusFlowTray object, a dict of its attributes (empty before construction)
  ticking,        \* the GLib timeout source of the tray calls tick
  op,             \* the handler that ran last
  signal,         \* that handler's tick detected the phase expiry (beep / notify)
  remain,         \* the remaining seconds that handler's tick computed
  raised,         \* that handler ended with an exception
  trip,           \* the calls of a config-store client: what each returned and left on disk
  effects,        \* the calls the last handler made, in the order it made them
  tally,          \* expiry notifications emitted and phases flipped by ticks so far
  sessions        \* two web sessions saving to CONFIG_PATH: their settings, and whether
                  \* save_config has opened the file and not yet written it

vars == <<clock, file, session_state, self, ticking, op, signal, remain, raised, trip,
          effects, tally, sessions>>

NoObject == [k \in {} |-> 0]

\* The two browser tabs, and a tab whose session has not run yet.
Peers == {"a", "b"}
NoPeer == [settings |-> NoObject, saving |-> FALSE]

\* The tally counts up to MaxTally and stays there.
MaxTally == 3

Min(a, b) == IF a <= b THEN a ELSE b

\* The calls that notify of an expiry: beep() (web), the notify of line 106 (tray).
ExpiryNotes == {"beep", "notify_expired"}

Count(calls, S) == Cardinality({i \in 1..Len(calls) : calls[i] \in S})

\* The tally after a handler that made the calls and flipped the phase or not.
Tallied(calls, flipped) ==
  [notes |-> Min(MaxTally, tally.notes + Count(calls, ExpiryNotes)),
   flips |-> Min(MaxTally, tally.flips + IF flipped THEN 1 ELSE 0)]

Initialized == "initialized" \in DOMAIN session_state
Constructed == "phase" \in DOMAIN self

\* ---------------------------------------------------- focusflow_app.py: config
\* load_config(): <<the dict returned, the file afterwards>>.  json.loads raises on
\* text that is no JSON, and the except clause returns the defaults.
load_config(f) ==
  IF ~f.exists THEN <<DEFAULTS, JsonFile(json_dumps(DEFAULTS))>>
  ELSE IF ~f.json THEN <<DEFAULTS, f>>
  ELSE <<DictMerge(DEFAULTS, json_loads(f.members)), f>>

\* A save that writes the three settings and drops any other key.
save_config_known_keys(cfg) ==
  JsonFile(json_dumps([k \in (DOMAIN cfg) \cap DOMAIN DEFAULTS |-> cfg[k]]))

\* save_config(cfg): the file afterwards.
save_config(cfg) == JsonFile(json_dumps(cfg))

\* Lines 34-42: the session is initialised on the first script run.
InitSession(cfg) ==
  [ work_minutes  |-> cfg["work_minutes"],
    break_minutes |-> cfg["break_minutes"],
    theme         |-> cfg["theme"],
    phase         |-> "work",
    running       |-> FALSE,
    end_time      |-> 0,
    initialized   |-> TRUE ]

\* Lines 80-84: the settings of the session, as saved on every script run.
SessionSettings(s) ==
  [work_minutes |-> s.work_minutes, break_minutes |-> s.break_minutes, theme |-> s.theme]

\* ----------------------------------------------------- focusflow_app.py: timer
\* A start that resumes a countdown whose deadline is still ahead.
start_timer_resume(s, now) ==
  LET minutes == IF s.phase = "work" THEN s.work_minutes ELSE s.break_minutes
  IN  [s EXCEPT !.end_time = IF @ > now THEN @ ELSE now + Seconds(minutes),
                !.running = TRUE]

start_timer(s, now) ==
  LET minutes == IF s.phase = "work" THEN s.work_minutes ELSE s.break_minutes
  IN  [s EXCEPT !.end_time = now + Seconds(minutes), !.running = TRUE]

pause_timer(s) == [s EXCEPT !.running = FALSE]

reset_timer(s) == [s EXCEPT !.running = FALSE, !.phase = "work", !.end_time = 0]

\* Line 138.
Remaining(s, now) == IF s.running THEN Max(0, PyInt(s.end_time - now)) ELSE 0

\* Line 145.
PhaseComplete(s, now) == s.running /\ Remaining(s, now) <= 0

\* A loop that flips the phase on expiry and then waits for a manual start.
PollingLoop_NoChain(s, now) ==
  IF PhaseComplete(s, now)
  THEN [s EXCEPT !.phase = IF s.phase = "work" THEN "break" ELSE "work",
                 !.running = FALSE]
  ELSE s

\* Lines 136-152: one pass of the polling loop, the session afterwards.
PollingLoop(s, now) ==
  IF PhaseComplete(s, now)
  THEN start_timer([s EXCEPT !.phase = IF s.phase = "work" THEN "break" ELSE "work"], now)
  ELSE s

\* Lines 145-152: the calls of one pass of the polling loop, in order.
LoopCalls(s, now) == IF PhaseComplete(s, now) THEN <<"beep", "flip", "start">> ELSE <<>>

\* Lines 101-108: the button pressed in this script run, if any.
Button(btn, s, now) ==
  CASE btn = "start" -> start_timer(s, now)
    [] btn = "pause" -> pause_timer(s)
    [] btn = "reset" -> reset_timer(s)
    [] OTHER -> s

\* Lines 70 and 72: st.number_input raises when its value lies outside
\* [min_value, max_value].
WidgetsAccept(s) == s.work_minutes \in 1..180 /\ s.break_minutes \in 1..60

\* One run of the script, top to bottom: the first run initialises the session
\* (lines 34-42); the widgets return w, b, th (lines 70-77); the settings are saved
\* (lines 80-84); the pressed button is handled (lines 101-108); the polling loop
\* runs once and ends the run with st.rerun() (lines 136-155).
ScriptRun(btn, w, b, th) ==
  LET loaded == load_config(file)
      s0 == IF Initialized THEN session_state ELSE InitSession(loaded[1])
      f0 == IF Initialized THEN file ELSE loaded[2]
  IN  IF ~WidgetsAccept(s0)
      THEN /\ session_state' = s0
           /\ file' = f0
           /\ raised' = TRUE
           /\ signal' = FALSE
           /\ remain' = remain
           /\ effects' = <<>>
           /\ tally' = tally
      ELSE LET s1 == [s0 EXCEPT !.work_minutes = w, !.break_minutes = b, !.theme = th]
               s2 == Button(btn, s1, clock)
           IN  /\ session_state' = PollingLoop(s2, clock)
               /\ file' = save_config(SessionSettings(s1))
               /\ raised' = FALSE
               /\ signal' = PhaseComplete(s2, clock)
               /\ remain' = Remaining(s2, clock)
               /\ effects' = (IF btn = "start" THEN <<"start">> ELSE <<>>)
                                \o LoopCalls(s2, clock)
               /\ tally' = Tallied(LoopCalls(s2, clock),
                                   PollingLoop(s2, clock).phase # s2.phase)

\* The widgets of a run the user did not touch return the session's values.
SameWidgets(btn) ==
  LET s0 == IF Initialized THEN session_state ELSE InitSession(load_config(file)[1])
  IN  ScriptRun(btn, s0.work_minutes, s0.break_minutes, s0.theme)

\* The page is rendered down to the buttons and the polling loop reruns it.
PageLive == Initialized /\ WidgetsAccept(session_state)

WebOpen ==
  /\ ~Initialized /\ ~Constructed
  /\ SameWidgets("none")
  /\ op' = "open"
  /\ UNCHANGED <<clock, self, ticking, trip, sessions>>

WebRerun ==
  /\ PageLive
  /\ SameWidgets("none")
  /\ op' = "tick"
  /\ UNCHANGED <<clock, self, ticking, trip, sessions>>

WebStart ==
  /\ PageLive
  /\ SameWidgets("start")
  /\ op' = "start"
  /\ UNCHANGED <<clock, self, ticking, trip, sessions>>

WebPause ==
  /\ PageLive
  /\ SameWidgets("pause")
  /\ op' = "pause"
  /\ UNCHANGED <<clock, self, ticking, trip, sessions>>

WebReset ==
  /\ PageLive
  /\ SameWidgets("reset")
  /\ op' = "reset"
  /\ UNCHANGED <<clock, self, ticking, trip, sessions>>

\* The user changes one of the three settings widgets.
WebSettings ==
  /\ PageLive
  /\ \/ \E w \in InputMinutes \ {session_state.work_minutes} :
          ScriptRun("none", w, session_state.break_minutes, session_state.theme)
     \/ \E b \in InputMinutes \ {session_state.break_minutes} :
          ScriptRun("none", session_state.work_minutes, b, session_state.theme)
     \/ \E th \in Themes \ {session_state.theme} :
          ScriptRun("none", session_state.work_minutes, session_state.break_minutes, th)
  /\ op' = "settings"
  /\ UNCHANGED <<clock, self, ticking, trip, sessions>>

\* --------------------------------------------------- focusflow_tray.py
\* load_config(): <<the value returned, the file afterwards>>.  An absent file is
\* written with the defaults and read back.
tray_load_config(f) ==
  IF ~f.exists
  THEN <<json_loads(json_dumps(DEFAULTS)), JsonFile(json_dumps(DEFAULTS))>>
  ELSE IF ~f.json THEN <<DEFAULTS, f>>
  ELSE <<json_loads(f.members), f>>

\* FocusFlowTray.__init__, lines 31-34.
NewTray(cfg) == [cfg |-> cfg, phase |-> "work", running |-> FALSE, end_ts |-> 0]

\* self.cfg[...] of line 75 raises KeyError.
StartRaises(o) ==
  (IF o.phase = "work" THEN "work_minutes" ELSE "break_minutes") \notin DOMAIN o.cfg

\* A start that refuses a duration that is not positive.
tray_start_validating(o, now) ==
  IF StartRaises(o) THEN o
  ELSE LET minutes == IF o.phase = "work" THEN o.cfg["work_minutes"]
                      ELSE o.cfg["break_minutes"]
       IN  IF minutes <= 0 THEN o
           ELSE [o EXCEPT !.end_ts = now + Seconds(minutes), !.running = TRUE]

\* FocusFlowTray.start: the object afterwards (unchanged when line 75 raises).
tray_start(o, now) ==
  IF StartRaises(o) THEN o
  ELSE LET minutes == IF o.phase = "work" THEN o.cfg["work_minutes"]
                      ELSE o.cfg["break_minutes"]
       IN  [o EXCEPT !.end_ts = now + Seconds(minutes), !.running = TRUE]

\* A pause that toggles.
tray_pause_toggle(o) == [o EXCEPT !.running = ~@]

tray_pause(o) == [o EXCEPT !.running = FALSE]

\* A reset that keeps the phase.
tray_reset_keep_phase(o) == [o EXCEPT !.running = FALSE, !.end_ts = 0]

tray_reset(o) == [o EXCEPT !.running = FALSE, !.phase = "work", !.end_ts = 0]

\* Lines 75-81: the calls of start, in order (the notification follows the
\* assignments).
tray_start_calls(o) == IF StartRaises(o) THEN <<"raise">> ELSE <<"start", "notify_phase">>

\* Lines 96-99.
tray_remain(o, now) == IF o.running THEN Max(0, PyInt(o.end_ts - now)) ELSE 0

\* An expiry test on the difference itself, without int().
tray_expired_unrounded(o, now) == o.running /\ o.end_ts - now <= 0

\* Line 105.
tray_expired(o, now) == o.running /\ tray_remain(o, now) <= 0

\* Line 107.
tray_flip(o) == [o EXCEPT !.phase = IF o.phase = "work" THEN "break" ELSE "work"]

\* A tick that counts the deadline down instead of only reading it.
tray_tick_countdown(o, now) ==
  IF tray_expired(o, now) THEN tray_start(tray_flip(o), now)
  ELSE [o EXCEPT !.end_ts = @ - TicksPerSecond]

\* A tick that flips the phase and waits for a manual start.
tray_tick_stop(o, now) ==
  IF tray_expired(o, now) THEN [tray_flip(o) EXCEPT !.running = FALSE] ELSE o

\* A tick that measures the next phase from the deadline it missed.
tray_tick_catch_up(o, now) ==
  IF tray_expired(o, now) THEN tray_start(tray_flip(o), o.end_ts) ELSE o

\* FocusFlowTray.tick: the object afterwards.
tray_tick(o, now) == IF tray_expired(o, now) THEN tray_start(tray_flip(o), now) ELSE o

\* A tick that flips the phase before it notifies.
tray_tick_calls_flip_first(o, now) ==
  IF tray_expired(o, now)
  THEN <<"flip", "notify_expired">> \o tray_start_calls(tray_flip(o))
  ELSE <<>>

\* Lines 105-108: the calls of tick, in order.
tray_tick_calls(o, now) ==
  IF tray_expired(o, now)
  THEN <<"notify_expired", "flip">> \o tray_start_calls(tray_flip(o))
  ELSE <<>>

\* tick does not reach its return True when the start() it calls raises.
TickRaises(o, now) == tray_expired(o, now) /\ StartRaises(tray_flip(o))

TrayOpen ==
  /\ ~Constructed /\ ~Initialized
  /\ self' = NewTray(tray_load_config(file)[1])
  /\ file' = tray_load_config(file)[2]
  /\ ticking' = TRUE
  /\ op' = "open"
  /\ signal' = FALSE /\ raised' = FALSE
  /\ effects' = <<>>
  /\ UNCHANGED <<clock, session_state, remain, trip, tally, sessions>>

TrayStart ==
  /\ Constructed
  /\ self' = tray_start(self, clock)
  /\ raised' = StartRaises(self)
  /\ op' = "start"
  /\ signal' = FALSE
  /\ effects' = tray_start_calls(self)
  /\ UNCHANGED <<clock, file, session_state, ticking, remain, trip, tally, sessions>>

TrayPause ==
  /\ Constructed
  /\ self' = tray_pause(self)
  /\ op' = "pause"
  /\ signal' = FALSE /\ raised' = FALSE
  /\ effects' = <<>>
  /\ UNCHANGED <<clock, file, session_state, ticking, remain, trip, tally, sessions>>

TrayReset ==
  /\ Constructed
  /\ self' = tray_reset(self)
  /\ op' = "reset"
  /\ signal' = FALSE /\ raised' = FALSE
  /\ effects' = <<>>
  /\ UNCHANGED <<clock, file, session_state, ticking, remain, trip, tally, sessions>>

\* The GLib timeout calls tick; a callback that does not return True is removed.
TrayTick ==
  /\ Constructed /\ ticking
  /\ self' = tray_tick(self, clock)
  /\ remain' = tray_remain(self, clock)
  /\ signal' = tray_expired(self, clock)
  /\ raised' = TickRaises(self, clock)
  /\ ticking' = ~TickRaises(self, clock)
  /\ op' = "tick"
  /\ effects' = tray_tick_calls(self, clock)
  /\ tally' = Tallied(tray_tick_calls(self, clock), tray_tick(self, clock).phase # self.phase)
  /\ UNCHANGED <<clock, file, session_state, trip, sessions>>

\* ------------------------------------------------------------------- clock
Advance ==
  /\ \E t \in ClockReadings : t > clock /\ clock' = t
  /\ UNCHANGED <<file, session_state, self, ticking, op, signal, remain, raised, trip,
               effects, tally, sessions>>

\* ------------------------------------------------------------ specification
\* The member lists of the settings files a session may find: every subset of the
\* keys, the minutes from FileMinutes.
Opt(S) == {<<>>} \cup {<<m>> : m \in S}

WorkMembers == Opt({<<"work_minutes", m>> : m \in FileMinutes})
BreakMembers == Opt({<<"break_minutes", m>> : m \in FileMinutes})
ThemeMembers == Opt({<<"theme", "light">>})
ExtraMembers == Opt({<<"extra", 7>>})

\* Files with both minute keys, for the timer.
TimerFiles ==
  {NoFile, Garbage} \cup
  {JsonFile(<< <<"work_minutes", w>>, <<"break_minutes", b>> >>) :
     w \in FileMinutes, b \in FileMinutes}

\* Every file: absent, no JSON, or an object with any subset of the keys, written
\* in the order of KeyOrder or in the reverse order.
ObjectTexts ==
  {w \o b \o t \o e : w \in WorkMembers, b \in BreakMembers,
                      t \in ThemeMembers, e \in ExtraMembers}
    \cup {e \o t \o b \o w : w \in WorkMembers, b \in BreakMembers,
                             t \in ThemeMembers, e \in ExtraMembers}

AllFiles == {NoFile, Garbage} \cup {JsonFile(m) : m \in ObjectTexts}

NoSession ==
  /\ clock = 0
  /\ session_state = NoObject
  /\ self = NoObject
  /\ ticking = FALSE
  /\ op = "none"
  /\ signal = FALSE
  /\ remain = 0
  /\ raised = FALSE
  /\ trip = <<>>
  /\ effects = <<>>
  /\ tally = [notes |-> 0, flips |-> 0]
  /\ sessions = [p \in Peers |-> NoPeer]

Init == file \in TimerFiles /\ NoSession

Next ==
  \/ WebOpen \/ WebRerun \/ WebStart \/ WebPause \/ WebReset \/ WebSettings
  \/ TrayOpen \/ TrayStart \/ TrayPause \/ TrayReset \/ TrayTick
  \/ Advance

Spec == Init /\ [][Next]_vars

\* The scheduling of the front-ends: time passes, the GLib timeout keeps calling
\* tick while it is installed, and every script run of the page ends in st.rerun().
Fairness == WF_vars(Advance) /\ WF_vars(TrayTick) /\ WF_vars(WebRerun)

\* Sessions on the defaults (no file yet) or on a file with positive minutes.
InitLive ==
  /\ file \in {NoFile, JsonFile(<< <<"work_minutes", 1>>, <<"break_minutes", 2>> >>)}
  /\ NoSession

\* The handlers of a session whose settings the user leaves alone.
NextLive ==
  \/ WebOpen \/ WebRerun \/ WebStart \/ WebPause \/ WebReset
  \/ TrayOpen \/ TrayStart \/ TrayPause \/ TrayReset \/ TrayTick
  \/ Advance

SpecLive == InitLive /\ [][NextLive]_vars /\ Fairness

\* The front-ends over every settings file.
InitSettings == file \in AllFiles /\ NoSession

SpecSettings == InitSettings /\ [][Next]_vars

\* A client of the config store of focusflow_app.py that alternates load_config()
\* and save_config(the dict loaded), and records what each call returned and left
\* on disk.
MaxTrip == 5

RoundTripLoad ==
  /\ Len(trip) < MaxTrip /\ Len(trip) % 2 = 0
  /\ file' = load_config(file)[2]
  /\ trip' = Append(trip, [cfg |-> load_config(file)[1], disk |-> file'])
  /\ op' = "load"
  /\ UNCHANGED <<clock, session_state, self, ticking, signal, remain, raised, effects, tally,
               sessions>>

RoundTripSave ==
  /\ Len(trip) < MaxTrip /\ Len(trip) % 2 = 1
  /\ file' = save_config(trip[Len(trip)].cfg)
  /\ trip' = Append(trip, [cfg |-> trip[Len(trip)].cfg, disk |-> file'])
  /\ op' = "save"
  /\ UNCHANGED <<clock, session_state, self, ticking, signal, remain, raised, effects, tally,
               sessions>>

NextRoundTrip == RoundTripLoad \/ RoundTripSave

SpecRoundTrip == InitSettings /\ [][NextRoundTrip]_vars

\* ---------------------------------------- two web sessions, one settings file
\* Path.write_text opens the file for writing, which truncates it, and then writes
\* the text from offset 0 and closes; another session can run between the two.
\* A script run of session p reaches save_config (lines 80-84) with the values
\* of its widgets and opens the file.
PeerSaveOpen(p) ==
  /\ sessions[p].settings # NoObject /\ ~sessions[p].saving
  /\ \E w \in PeerMinutes, th \in Themes :
       sessions' = [sessions EXCEPT ![p] =
                      [settings |-> [@.settings EXCEPT !.work_minutes = w, !.theme = th],
                       saving |-> TRUE]]
  /\ file' = Truncated
  /\ op' = "save_open"
  /\ UNCHANGED <<clock, session_state, self, ticking, signal, remain, raised, trip,
               effects, tally>>

\* Session p writes its text and closes the file.
PeerSaveWrite(p) ==
  /\ sessions[p].saving
  /\ file' = WriteOver(file, json_dumps(sessions[p].settings))
  /\ sessions' = [sessions EXCEPT ![p].saving = FALSE]
  /\ op' = "save_write"
  /\ UNCHANGED <<clock, session_state, self, ticking, signal, remain, raised, trip,
               effects, tally>>

\* A new session is opened in p's browser tab: lines 34-42 load the settings.
PeerLoad(p) ==
  /\ ~sessions[p].saving
  /\ sessions' = [sessions EXCEPT ![p].settings = SessionSettings(load_config(file)[1])]
  /\ file' = load_config(file)[2]
  /\ op' = "load"
  /\ UNCHANGED <<clock, session_state, self, ticking, signal, remain, raised, trip,
               effects, tally>>

InitTwo == file = JsonFile(json_dumps(DEFAULTS)) /\ NoSession

NextTwo == \E p \in Peers : PeerLoad(p) \/ PeerSaveOpen(p) \/ PeerSaveWrite(p)

SpecTwo == InitTwo /\ [][NextTwo]_vars

\* ------------------------------------------ both front-ends side by side
\* The web page and the tray opened on the same settings and given the same
\* operations at the same clock readings.  The page is opened first, so the tray
\* reads the file the page has saved.
BothOpen ==
  /\ ~Initialized /\ ~Constructed
  /\ SameWidgets("none")
  /\ self' = NewTray(tray_load_config(file')[1])
  /\ ticking' = TRUE
  /\ op' = "open"
  /\ UNCHANGED <<clock, trip, sessions>>

BothStart ==
  /\ PageLive /\ Constructed
  /\ SameWidgets("start")
  /\ self' = tray_start(self, clock)
  /\ op' = "start"
  /\ UNCHANGED <<clock, ticking, trip, sessions>>

BothPause ==
  /\ PageLive /\ Constructed
  /\ SameWidgets("pause")
  /\ self' = tray_pause(self)
  /\ op' = "pause"
  /\ UNCHANGED <<clock, ticking, trip, sessions>>

BothReset ==
  /\ PageLive /\ Constructed
  /\ SameWidgets("reset")
  /\ self' = tray_reset(self)
  /\ op' = "reset"
  /\ UNCHANGED <<clock, ticking, trip, sessions>>

BothTick ==
  /\ PageLive /\ Constructed /\ ticking
  /\ SameWidgets("none")
  /\ self' = tray_tick(self, clock)
  /\ ticking' = ~TickRaises(self, clock)
  /\ op' = "tick"
  /\ UNCHANGED <<clock, trip, sessions>>

\* Complete settings with positive minutes, or no file yet (the defaults).
InitBoth ==
  /\ file \in {NoFile} \cup
       {JsonFile(<< <<"work_minutes", w>>, <<"break_minutes", b>>, <<"theme", "light">> >>) :
          w \in InputMinutes, b \in InputMinutes}
  /\ NoSession

NextBoth == BothOpen \/ BothStart \/ BothPause \/ BothReset \/ BothTick \/ Advance

SpecBoth == InitBoth /\ [][NextBoth]_vars

\* ------------------------------------------------- the timer of the open session
Up == Initialized \/ Constructed

Phase == IF Initialized THEN session_state.phase ELSE self.phase
Running == IF Initialized THEN session_state.running ELSE self.running
Deadline == IF Initialized THEN session_state.end_time ELSE self.end_ts

WorkMinutes ==
  IF Initialized THEN session_state.work_minutes ELSE self.cfg["work_minutes"]
BreakMinutes ==
  IF Initialized THEN session_state.break_minutes ELSE self.cfg["break_minutes"]
PhaseMinutes == IF Phase = "work" THEN WorkMinutes ELSE BreakMinutes

\* The settings in effect, as a dict of the keys that have a value.
Settings == IF Initialized THEN SessionSettings(session_state) ELSE self.cfg

\* Both durations are configured, and positive.
PositiveMinutes ==
  /\ Initialized \/ {"work_minutes", "break_minutes"} \subseteq DOMAIN self.cfg
  /\ WorkMinutes > 0 /\ BreakMinutes > 0

Other(ph) == IF ph = "work" THEN "break" ELSE "work"

\* A step in which the polling loop / tick callback is evaluated on the timer
\* state of the state before it (no button of the same script run precedes it).
TickStep == Up /\ op' \in {"tick", "settings"} /\ clock' = clock

\* =================================================================== claims

\* C1: auto-chaining on expiry.  With positive work and break minutes, every tick
\* evaluated at clock time t while running with the deadline reached signals the
\* expiry and leaves the phase flipped, running = true and
\* deadline = t + 60 * (minutes of the new phase).
C1_AutoChain ==
  [][ (TickStep /\ PositiveMinutes /\ Running /\ clock >= Deadline)
        => /\ signal'
           /\ Phase' = Other(Phase)
           /\ Running'
           /\ Deadline' = clock + PhaseMinutes' * SecondsPerMinute * TicksPerSecond ]_vars

\* The 25/5 scenario after its second expiry: the tick at 1800 s has flipped the
\* phase back to work with the deadline at 3300 s.
C1_Witness ==
  /\ Up /\ op = "tick" /\ signal
  /\ PositiveMinutes /\ WorkMinutes = 25 /\ BreakMinutes = 5
  /\ clock = 1800 * TicksPerSecond
  /\ Phase = "work" /\ Running
  /\ Deadline = 3300 * TicksPerSecond

\* C2: start() from any state sets deadline = now + 60 * (minutes of the current
\* phase) and running = true, succeeds, and leaves the phase and the settings
\* alone, whatever countdown it interrupts; a tick evaluated within one second of
\* that start computes, for positive minutes, remaining = 60 * minutes, less at
\* most one second.
C2_StartRestarts ==
  [][ /\ (Up /\ op' = "start" /\ clock' = clock)
        => /\ ~raised'
           /\ Running'
           /\ Phase' = Phase
           /\ Settings' = Settings
           /\ Deadline' = clock + PhaseMinutes * SecondsPerMinute * TicksPerSecond
           /\ Initialized => remain' = PhaseMinutes * SecondsPerMinute
      /\ (/\ Up /\ op = "start" /\ op' = "tick" /\ clock' = clock
          /\ PhaseMinutes > 0
          /\ clock - (Deadline - PhaseMinutes * SecondsPerMinute * TicksPerSecond)
               <= TicksPerSecond)
        => /\ remain' <= PhaseMinutes * SecondsPerMinute
           /\ remain' >= PhaseMinutes * SecondsPerMinute - 1 ]_vars

\* start() was called during a break, after the clock had moved on.
C2_Witness ==
  /\ Up /\ op = "start" /\ clock > UnitsPerMinute
  /\ Phase = "break" /\ Running
  /\ BreakMinutes = 2
  /\ Deadline = clock + 2 * UnitsPerMinute

\* C3: reset() yields, from every state, the state the session was created in
\* (phase = work, running = false, deadline = 0) and leaves the settings alone.
C3_ResetCanonical ==
  [][ (Up /\ op' = "reset" /\ clock' = clock)
        => /\ Phase' = "work" /\ ~Running' /\ Deadline' = 0
           /\ Settings' = Settings
           /\ Initialized => session_state' = InitSession(SessionSettings(session_state))
           /\ Constructed => self' = NewTray(self.cfg) ]_vars

\* reset() was called after a tick had seen a countdown under way.
C3_Witness ==
  /\ Constructed /\ op = "reset" /\ remain > 0 /\ clock > 0
  /\ self.phase = "work" /\ ~self.running /\ self.end_ts = 0

\* C4: pause() sets running = false and changes nothing else; in an idle state it
\* changes nothing at all, so a second pause() leaves what the first one left.
C4_PauseIdempotent ==
  [][ (Up /\ op' = "pause" /\ clock' = clock)
        => /\ ~Running'
           /\ Phase' = Phase /\ Deadline' = Deadline /\ Settings' = Settings
           /\ ~Running => (session_state' = session_state /\ self' = self)
           /\ op = "pause" => (session_state' = session_state /\ self' = self) ]_vars

\* pause() has stopped a break countdown; its deadline stays behind, still ahead.
C4_Witness ==
  /\ Up /\ op = "pause" /\ ~Running /\ Phase = "break" /\ Deadline > clock

TimerUnchanged == Phase' = Phase /\ Running' = Running /\ Deadline' = Deadline

\* C5 as stated: a tick while idle computes remaining = 0, and a tick while idle or
\* while running with the deadline still ahead leaves phase, running and deadline
\* unchanged.
C5_Original ==
  [][ (TickStep /\ (~Running \/ Deadline > clock))
        => /\ TimerUnchanged
           /\ ~Running => remain' = 0 ]_vars

\* C5, amended: a tick while idle computes remaining = 0, and a tick while idle or
\* while running with at least one whole second left leaves phase, running and
\* deadline unchanged; the timer state changes only in a start, a pause, a reset
\* or a tick that signals the expiry.
C5_PureQuery ==
  [][ /\ (TickStep /\ (~Running \/ Deadline - clock >= TicksPerSecond))
        => /\ TimerUnchanged /\ ~signal'
           /\ ~Running => remain' = 0
      /\ (Up /\ ~TimerUnchanged) => (op' \in {"start", "pause", "reset"} \/ signal') ]_vars

\* A tick has looked at a paused timer whose stale deadline has passed.
C5_Witness ==
  /\ Up /\ op = "tick" /\ ~signal /\ remain = 0
  /\ ~Running /\ Deadline > 0 /\ Deadline < clock /\ Phase = "break"

\* C6 as stated: tick signals the expiry if and only if running and
\* now >= deadline, its remaining time is 0 exactly when max(0, deadline - now) is,
\* and a tick while running with now < deadline does not flip the phase.
C6_Original ==
  [][ TickStep
        => /\ signal' <=> (Running /\ clock >= Deadline)
           /\ Running => (remain' = 0 <=> Max(0, Deadline - clock) = 0)
           /\ (Running /\ clock < Deadline) => Phase' = Phase ]_vars

\* C6, amended: tick computes the whole seconds of deadline - now (0 when the
\* deadline has passed or the timer is idle), and signals the expiry if and only if
\* running with less than one whole second left; with a second or more left the
\* phase is not flipped.
C6_WholeSeconds ==
  [][ TickStep
        => /\ signal' <=> (Running /\ Deadline - clock < TicksPerSecond)
           /\ IF Running /\ Deadline >= clock
              THEN /\ remain' * TicksPerSecond <= Deadline - clock
                   /\ Deadline - clock < (remain' + 1) * TicksPerSecond
              ELSE remain' = 0
           /\ (Running /\ Deadline - clock >= TicksPerSecond) => Phase' = Phase ]_vars

\* A tick at a reading that is not a whole second has detected an expiry.
C6_Witness ==
  /\ Up /\ op = "tick" /\ signal /\ remain = 0
  /\ clock % TicksPerSecond # 0
  /\ Running /\ Deadline = clock + PhaseMinutes * SecondsPerMinute * TicksPerSecond

SettingKeys == {"work_minutes", "break_minutes", "theme"}

\* The value a settings file gives a key: the file's when it has the key, else the
\* default (25, 5, dark).
FileOrDefault(members, k) ==
  IF \E i \in 1..Len(members) : members[i][1] = k
  THEN members[CHOOSE i \in 1..Len(members) : members[i][1] = k][2]
  ELSE IF k = "work_minutes" THEN 25 ELSE IF k = "break_minutes" THEN 5 ELSE "dark"

\* The minutes a file gives are positive.
FileMinutesPositive(members) ==
  \A i \in 1..Len(members) :
    members[i][1] \in {"work_minutes", "break_minutes"} => members[i][2] > 0

\* C7 as stated: in both front-ends, a session opened on a file holding a JSON
\* object with any subset of the keys (its minutes positive) loads without an
\* exception, has the file's value for each key present and the default for each
\* key missing, and a start() in either phase succeeds.
C7_Original ==
  [][ /\ (/\ ~Up /\ op' = "open"
          /\ file.exists /\ file.json /\ FileMinutesPositive(file.members))
        => /\ ~raised'
           /\ \A k \in SettingKeys :
                /\ k \in DOMAIN Settings'
                /\ Settings'[k] = FileOrDefault(file.members, k)
      /\ (Up /\ op' = "start" /\ clock' = clock) => (~raised' /\ Running') ]_vars

\* C8 as stated: a session opened on a malformed file starts with the defaults,
\* and no step of it other than a change of a setting by the user overwrites the
\* malformed file; the defaults are written only over an absent file.
C8_Original ==
  [][ /\ (~Up /\ op' = "open" /\ file = Garbage)
        => \A k \in SettingKeys :
             k \in DOMAIN Settings' /\ Settings'[k] = FileOrDefault(<<>>, k)
      /\ (op' # "settings" /\ file = Garbage) => file' = Garbage
      /\ (/\ op' # "settings" /\ file' # file
          /\ file' = JsonFile(<< <<"work_minutes", 25>>, <<"break_minutes", 5>>,
                                 <<"theme", "dark">> >>))
        => ~file.exists ]_vars

\* C9: load() after save(load()) returns the record the first load() returned, and
\* after the first save() no further load() or save(load()) changes the file.
C9_RoundTripStable ==
  \A i \in 1..Len(trip) :
    /\ (i >= 3 /\ i % 2 = 1) => trip[i].cfg = trip[1].cfg
    /\ i >= 3 => trip[i].disk = trip[2].disk

\* Two round trips on a file that lacked break_minutes and had an unknown key: the
\* first save() rewrote the file.
C9_Witness ==
  /\ Len(trip) = 5
  /\ trip[2].disk # trip[1].disk
  /\ "extra" \in DOMAIN trip[5].cfg
  /\ trip[5].cfg["break_minutes"] = 5 /\ trip[5].cfg["work_minutes"] = 2

\* C10 as stated: with positive durations, whenever running is true the deadline
\* lies in the future, in every reachable state.
C10_Original == (Up /\ PositiveMinutes /\ Running) => Deadline > clock

\* C10, amended: with positive durations, the deadline lies in the future when a
\* handler returns with running = true (not while the clock advances between two
\* ticks); and running becomes true, or the deadline of a running timer changes,
\* only in a start (manual or chained by an expiring tick), which sets
\* deadline = now + 60 * (minutes of the phase).
C10_DeadlineFromStart ==
  [][ (Up' /\ PositiveMinutes' /\ Running')
        => /\ clock' = clock => Deadline' > clock'
           /\ (~Up \/ ~Running \/ Deadline' # Deadline)
                => /\ op' = "start" \/ signal'
                   /\ Deadline' = clock' + PhaseMinutes' * SecondsPerMinute * TicksPerSecond ]_vars

\* The clock has passed the deadline of a running timer and no tick has run yet.
C10_Witness ==
  /\ Up /\ PositiveMinutes /\ Running /\ op = "start"
  /\ Deadline = UnitsPerMinute + 1 /\ clock > Deadline

\* C11: a handler whose tick detects the expiry emits exactly one expiry
\* notification, before it flips the phase and before it calls start() for the new
\* phase; a handler whose tick detects none emits no expiry notification and its
\* tick flips nothing; so the expiry notifications and the phases flipped by ticks
\* are equal in number.
C11_NotifyBeforeFlip ==
  [][ (Up' /\ clock' = clock)
        => /\ IF signal'
              THEN \E i, j, k \in 1..Len(effects') :
                     /\ i < j /\ j < k
                     /\ effects'[i] \in ExpiryNotes
                     /\ effects'[j] = "flip"
                     /\ effects'[k] \in {"start", "raise"}
                     /\ Count(effects', ExpiryNotes) = 1
                     /\ Count(effects', {"flip"}) = 1
              ELSE Count(effects', ExpiryNotes \cup {"flip"}) = 0
           /\ TickStep => (signal' <=> Phase' # Phase)
           /\ tally'.notes = tally'.flips ]_vars

\* The tray has notified of its second expiry and flipped back to work.
C11_Witness ==
  /\ Constructed /\ op = "tick" /\ signal
  /\ effects = <<"notify_expired", "flip", "start", "notify_phase">>
  /\ tally.notes = 2 /\ tally.flips = 2
  /\ self.phase = "work" /\ self.running

\* The last reading of the clock the model observes.
LastReading == CHOOSE t \in ClockReadings : \A u \in ClockReadings : u <= t

\* A countdown of phase ph that the observed clock can outlast.
Counting(ph) ==
  Up /\ PositiveMinutes /\ Running /\ Phase = ph /\ Deadline <= LastReading

\* C12: with positive durations, a running machine stays running in every step
\* that is not a pause() or a reset(), its phase flips only to the other phase and
\* only in a tick that signals the expiry (or goes back to work in a reset), and,
\* with the clock advancing and ticks being evaluated, every countdown ends: by the
\* flip to the other phase unless the user pauses, resets or restarts it.
C12_CyclesContinue ==
  /\ [][ (Up /\ PositiveMinutes /\ Running)
           => /\ ~(clock' = clock /\ op' \in {"pause", "reset"}) => Running'
              /\ (Phase' # Phase /\ op' # "reset")
                   => (signal' /\ Phase' = Other(Phase) /\ Running') ]_vars
  /\ \A ph \in {"work", "break"} :
       Counting(ph) ~> (~Up \/ ~Running \/ Phase # ph \/ Deadline > LastReading)

\* The web session has gone through work and break and is in work again.
C12_Witness ==
  /\ Initialized /\ op = "tick" /\ signal
  /\ session_state.phase = "work" /\ session_state.running
  /\ tally.flips = 2
  /\ clock <= MaxClock

\* Both durations are configured.
HasMinutes == Initialized \/ {"work_minutes", "break_minutes"} \subseteq DOMAIN self.cfg

C15_NoCatchUp ==
  [][ /\ (/\ TickStep /\ HasMinutes /\ PositiveMinutes /\ Running
          /\ clock > Deadline + Seconds(IF Phase = "work" THEN BreakMinutes
                                        ELSE WorkMinutes))
            => /\ signal' /\ ~raised'
               /\ Phase' = Other(Phase)
               /\ Count(effects', {"flip"}) = 1
               /\ Running'
               /\ Deadline' = clock + Seconds(PhaseMinutes')
               /\ Deadline' > clock
      /\ Up' => Count(effects', {"flip"}) <= 1 ]_vars

\* A one-minute work phase started at 0 and looked at again after three minutes:
\* the break it opens ends a minute after the look.
C15_Witness ==
  /\ Up /\ HasMinutes /\ op = "tick" /\ signal /\ ~raised
  /\ WorkMinutes = 1 /\ BreakMinutes = 1
  /\ Phase = "break" /\ Running
  /\ clock = Seconds(3) /\ Deadline = Seconds(4)
  /\ tally.flips = 1

\* The web session's timer equals the tray's.
TimersAgree ==
  /\ session_state.phase = self.phase
  /\ session_state.running = self.running
  /\ session_state.end_time = self.end_ts

\* C16: opened on the same complete settings with positive minutes and given the
\* same operations at the same clock readings, the web session's (phase, running,
\* end_time) equals the tray's (phase, running, end_ts) after every operation, the
\* web signals an expiry in exactly the ticks in which the tray's test of line 105
\* holds, and both show the same remaining seconds.
C16_SameMachine ==
  [][ (Initialized' /\ Constructed')
        => /\ TimersAgree'
           /\ clock' = clock
                => /\ signal' = (op' = "tick" /\ tray_expired(self, clock))
                   /\ op' = "tick" => remain' = tray_remain(self, clock) ]_vars

\* Both have gone through work and break and are in the second work phase.
C16_Witness ==
  /\ Initialized /\ Constructed
  /\ op = "tick" /\ signal
  /\ tally.flips = 2
  /\ session_state.phase = "work" /\ self.phase = "work"
  /\ session_state.running /\ self.running
  /\ session_state.end_time = self.end_ts /\ self.end_ts > clock

\* C14 as stated: when a session's save completes and no save is in progress, the
\* file holds exactly the record of that session, the last writer; and a load
\* returns a complete record that a session saved, or the defaults.
C14_Original ==
  [][ \A p \in Peers :
        /\ (/\ op' = "save_write" /\ sessions[p].saving /\ ~sessions'[p].saving
            /\ \A q \in Peers : ~sessions'[q].saving)
              => file' = JsonFile(json_dumps(sessions[p].settings))
        /\ (op' = "load" /\ sessions'[p] # sessions[p])
              => sessions'[p].settings \in
                   {[DEFAULTS EXCEPT !.work_minutes = w, !.theme = th] :
                      w \in PeerMinutes, th \in Themes} ]_vars

====
